---- MODULE Spec2Model ----
(***************************************************************************)
(* Model of app.py: the PDF text extractor (read_pdf_bytes), the           *)
(* credential lookup (get_model_api_key), the recovery of the fenced csv   *)
(* block (extract_csv_block) and the Streamlit script run (main).          *)
(*                                                                         *)
(* Strings.  A document text is a Python str kept run-length encoded: a    *)
(* sequence of runs [c |-> character, n |-> repetitions >= 1] in which     *)
(* neighbouring runs differ in c, so that texts of the slider's real       *)
(* lengths (thousands of characters) stay small.  "" is <<>>.  A literal   *)
(* of a prompt template is one run whose c is the whole literal.  A model  *)
(* response is short and kept as a plain sequence of characters.           *)
(* Optional[...] is None or Some(v).                                       *)
(***************************************************************************)
EXTENDS Integers, Sequences, FiniteSets, TLC

VARIABLES
    fitz,           \* module fitz loaded (TRUE) or None (FALSE)
    pdfplumber,     \* module pdfplumber loaded (TRUE) or None (FALSE)
    pc,             \* position of the run
    file_bytes,     \* read_pdf_bytes: the argument
    rd,             \* read_pdf_bytes: how the call ended
    text,           \* extract_csv_block: the argument
    match,          \* extract_csv_block: the return value
    OpenAI,         \* class OpenAI imported (TRUE) or None (FALSE)
    file_asr,       \* st.file_uploader("PDF - ASR"): None or Some(document)
    file_other,     \* st.file_uploader("PDF - Andere verzekeraar")
    mode,           \* st.selectbox("Vergelijkingsmodus")
    want_table_simple, \* st.checkbox("Toon resultaat als tabel (ook bij Simpel)")
    max_chars,      \* st.slider("Max. tekens per document")
    provided_key,   \* st.sidebar.text_input("AI_API_KEY ...")
    secrets,        \* st.secrets
    environ,        \* os.environ
    button,         \* what st.button("Genereer AI-vergelijking") returns
    service,        \* what the generation service does with a request
    read_csv_ok,    \* whether pd.read_csv parses the recovered block
    effective_key, text_asr, text_other, other_name, system_prompt, user_msg,
    content, csv_text,  \* locals of main
    ui,             \* the elements main has put on the page, in order
    requests        \* the requests made to the generation service, in order

flags == <<fitz, pdfplumber>>
pdfVars == <<file_bytes, rd>>
csvVars == <<text, match>>
inputs == <<OpenAI, file_asr, file_other, mode, want_table_simple, max_chars,
            provided_key, secrets, environ, button, service, read_csv_ok>>
locals == <<effective_key, text_asr, text_other, other_name, system_prompt, user_msg,
            content, csv_text, ui, requests>>
vars == <<pc, flags, pdfVars, csvVars, inputs, locals>>

None == [some |-> FALSE]
Some(v) == [some |-> TRUE, val |-> v]

\* ------------------------------------------------------------ bounds
MaxPages == 2
MaxPieces == 5

\* ------------------------------------------------------------ str
Whitespace == {" ", "\n", "\t"}

Run(c, n) == [c |-> c, n |-> n]

Chars(c, n) == IF n = 0 THEN <<>> ELSE <<Run(c, n)>>

\* a + b
Cat(a, b) ==
    IF a = <<>> THEN b
    ELSE IF b = <<>> THEN a
    ELSE IF a[Len(a)].c = b[1].c
         THEN SubSeq(a, 1, Len(a) - 1) \o <<Run(b[1].c, a[Len(a)].n + b[1].n)>> \o Tail(b)
         ELSE a \o b

RECURSIVE StrLen(_)
\* len(s)
StrLen(s) == IF s = <<>> THEN 0 ELSE s[1].n + StrLen(Tail(s))

RECURSIVE Take(_, _)
\* s[:k], k >= 0
Take(s, k) ==
    IF s = <<>> \/ k <= 0 THEN <<>>
    ELSE IF s[1].n >= k THEN <<Run(s[1].c, k)>>
    ELSE <<s[1]>> \o Take(Tail(s), k - s[1].n)

RECURSIVE LStrip(_)
LStrip(s) == IF s # <<>> /\ s[1].c \in Whitespace THEN LStrip(Tail(s)) ELSE s

RECURSIVE RStrip(_)
RStrip(s) ==
    IF s # <<>> /\ s[Len(s)].c \in Whitespace THEN RStrip(SubSeq(s, 1, Len(s) - 1)) ELSE s

\* s.strip()
Strip(s) == RStrip(LStrip(s))

RECURSIVE Join(_, _)
\* sep.join(parts)
Join(sep, parts) ==
    IF parts = <<>> THEN <<>>
    ELSE IF Len(parts) = 1 THEN parts[1]
    ELSE Cat(Cat(parts[1], sep), Join(sep, Tail(parts)))

\* x or ""
OrEmpty(x) == IF x.some /\ x.val # <<>> THEN x.val ELSE <<>>

\* ------------------------------------------------------------ read_pdf_bytes
(* A document is what the two backends do with its bytes: the texts of the *)
(* pages each yields, in page order, and whether it then raises (raises    *)
(* with no page: the open itself fails).  pdfplumber's extract_text() may  *)
(* return None.                                                            *)

\* except Exception: pass
ExceptPassRaises(st) == st

ExceptPass(st) == [st EXCEPT !.raised = FALSE]

\* with fitz.open(...) as doc: for page in doc: parts.append(page.get_text("text"))
FitzBody(st, bytes) ==
    [st EXCEPT !.parts = @ \o bytes.fitz.pages,
               !.n_fitz = Len(bytes.fitz.pages),
               !.fitz_called = TRUE,
               !.raised = bytes.fitz.raises]

\* with pdfplumber.open(...) as pdf: for page in pdf.pages: parts.append(page.extract_text() or "")
PlumberBody(st, bytes) ==
    [st EXCEPT !.parts = @ \o [i \in 1..Len(bytes.plumber.pages) |-> OrEmpty(bytes.plumber.pages[i])],
               !.n_plumber = Len(bytes.plumber.pages),
               !.plumber_called = TRUE,
               !.raised = bytes.plumber.raises]

\* if not parts and pdfplumber is not None
FallbackGuardAlways(parts) == pdfplumber

FallbackGuard(parts) == parts = <<>> /\ pdfplumber

read_pdf_bytes(bytes) ==
    LET s0 == [parts |-> <<>>, raised |-> FALSE, fitz_called |-> FALSE,
               plumber_called |-> FALSE, n_fitz |-> 0, n_plumber |-> 0]
        s1 == IF fitz THEN ExceptPass(FitzBody(s0, bytes)) ELSE s0
        s2 == IF s1.raised THEN s1
              ELSE IF FallbackGuard(s1.parts) THEN ExceptPass(PlumberBody(s1, bytes))
              ELSE s1
    IN  [raised |-> s2.raised,
         ret |-> IF s2.raised THEN <<>> ELSE Join(Chars("\n", 1), s2.parts),
         parts |-> s2.parts,
         fitz_called |-> s2.fitz_called, plumber_called |-> s2.plumber_called,
         n_fitz |-> s2.n_fitz, n_plumber |-> s2.n_plumber]

PageTexts == { <<>>, Chars("a", 1), Chars(" ", 1) }

SeqsUpTo(S, n) == UNION { [1..k -> S] : k \in 0..n }

FitzOutcomes == [pages : SeqsUpTo(PageTexts, MaxPages), raises : BOOLEAN]

PlumberOutcomes ==
    [pages : SeqsUpTo({None} \cup {Some(t) : t \in PageTexts}, MaxPages), raises : BOOLEAN]

Documents == [fitz : FitzOutcomes, plumber : PlumberOutcomes]

NoCall == [raised |-> FALSE, ret |-> <<>>, parts |-> <<>>, fitz_called |-> FALSE,
           plumber_called |-> FALSE, n_fitz |-> 0, n_plumber |-> 0]

\* the script has not run: nothing uploaded, nothing set, nothing shown
MainIdle ==
    /\ OpenAI = TRUE
    /\ file_asr = None /\ file_other = None
    /\ mode = "Simpel (inhoud)" /\ want_table_simple = TRUE
    /\ max_chars = 40000
    /\ provided_key = ""
    /\ secrets = [raises |-> TRUE, AI_API_KEY |-> None, OPENAI_API_KEY |-> None]
    /\ environ = [AI_API_KEY |-> None, OPENAI_API_KEY |-> None]
    /\ button = FALSE
    /\ service = [raises |-> TRUE, content |-> None]
    /\ read_csv_ok = TRUE
    /\ effective_key = None /\ text_asr = <<>> /\ text_other = <<>>
    /\ other_name = None /\ system_prompt = <<>> /\ user_msg = <<>>
    /\ content = <<>> /\ csv_text = None
    /\ ui = <<>> /\ requests = <<>>

\* read_pdf_bytes is not being called
PdfIdle ==
    /\ file_bytes = [fitz |-> [pages |-> <<>>, raises |-> TRUE],
                     plumber |-> [pages |-> <<>>, raises |-> TRUE]]
    /\ rd = NoCall

\* extract_csv_block is not being called
CsvIdle == text = <<>> /\ match = None

InitPdf ==
    /\ fitz \in BOOLEAN
    /\ pdfplumber \in BOOLEAN
    /\ file_bytes \in Documents
    /\ rd = NoCall
    /\ pc = "pdf_call"
    /\ CsvIdle
    /\ MainIdle

ReadPdf ==
    /\ pc = "pdf_call"
    /\ rd' = read_pdf_bytes(file_bytes)
    /\ pc' = "pdf_done"
    /\ UNCHANGED <<flags, file_bytes, csvVars, inputs, locals>>

NextPdf == ReadPdf

SpecPdf == InitPdf /\ [][NextPdf]_vars

\* ------------------------------------------------------------ extract_csv_block
(* The model response is a sequence of characters.  re.search tries the    *)
(* start positions from the left; at a start, "```csv" is matched ignoring *)
(* case, \s* takes the longest run of whitespace and gives characters back *)
(* one at a time, and (.*?) with DOTALL stops at the first "```" that      *)
(* follows.                                                                *)

\* the character U+0060 (a string literal of the module cannot hold it)
BT == "<backtick>"

\* re.IGNORECASE, for the letters of the pattern
Lower(c) == CASE c = "C" -> "c" [] c = "S" -> "s" [] c = "V" -> "v" [] OTHER -> c

HasFenceAt(t, j) == j >= 1 /\ j + 2 <= Len(t) /\ t[j] = BT /\ t[j + 1] = BT /\ t[j + 2] = BT

\* ```csv at position i
OpensAt(t, i) ==
    /\ HasFenceAt(t, i)
    /\ i + 5 <= Len(t)
    /\ Lower(t[i + 3]) = "c" /\ Lower(t[i + 4]) = "s" /\ Lower(t[i + 5]) = "v"

SetMin(S) == CHOOSE x \in S : \A y \in S : x <= y
SetMax(S) == CHOOSE x \in S : \A y \in S : x >= y

\* \s* at position p: the lengths it can take, the longest tried first
SpaceRuns(t, p) == { k \in 0..(Len(t) - p + 1) : \A q \in p..(p + k - 1) : t[q] \in Whitespace }

\* (.*) greedy: the last closing fence
CloseAtGreedy(t, p) ==
    LET js == { j \in p..Len(t) : HasFenceAt(t, j) }
    IN  IF js = {} THEN None ELSE Some(SetMax(js))

\* (.*?)``` from position p: the first closing fence at or after p
CloseAt(t, p) ==
    LET js == { j \in p..Len(t) : HasFenceAt(t, j) }
    IN  IF js = {} THEN None ELSE Some(SetMin(js))

\* the match that starts at i, if there is one
MatchAt(t, i) ==
    IF ~OpensAt(t, i) THEN None
    ELSE LET ws == { w \in SpaceRuns(t, i + 6) : CloseAt(t, i + 6 + w).some }
         IN  IF ws = {} THEN None
             ELSE LET w == SetMax(ws)
                      j == CloseAt(t, i + 6 + w).val
                  IN  Some([start |-> i, group1 |-> SubSeq(t, i + 6 + w, j - 1)])

\* re.search(r"```csv\s*(.*?)```", text, flags=re.DOTALL | re.IGNORECASE)
re_search(t) ==
    LET starts == { i \in 1..Len(t) : MatchAt(t, i).some }
    IN  IF starts = {} THEN None ELSE MatchAt(t, SetMin(starts))

RECURSIVE LStripChars(_)
LStripChars(s) == IF s # <<>> /\ s[1] \in Whitespace THEN LStripChars(Tail(s)) ELSE s

RECURSIVE RStripChars(_)
RStripChars(s) ==
    IF s # <<>> /\ s[Len(s)] \in Whitespace THEN RStripChars(SubSeq(s, 1, Len(s) - 1)) ELSE s

\* s.strip(), on a sequence of characters
StripChars(s) == RStripChars(LStripChars(s))

\* an empty payload reported as no match
extract_csv_block_or_none(t) ==
    LET m == re_search(t)
    IN  IF m.some /\ StripChars(m.val.group1) # <<>> THEN Some(StripChars(m.val.group1)) ELSE None

extract_csv_block(t) ==
    LET m == re_search(t)
    IN  IF m.some THEN Some(StripChars(m.val.group1)) ELSE None

Pieces == { <<BT, BT, BT, "c", "s", "v">>, <<BT, BT, BT, "C", "s", "V">>,
            <<BT, BT, BT>>, <<BT>>, <<" ", "\n">>, <<"x">> }

RECURSIVE Concat(_)
Concat(ps) == IF ps = <<>> THEN <<>> ELSE ps[1] \o Concat(Tail(ps))

Responses == { Concat(ps) : ps \in SeqsUpTo(Pieces, MaxPieces) }

InitCsv ==
    /\ fitz = TRUE
    /\ pdfplumber = TRUE
    /\ PdfIdle
    /\ MainIdle
    /\ text \in Responses
    /\ match = None
    /\ pc = "csv_call"

ExtractCsv ==
    /\ pc = "csv_call"
    /\ match' = extract_csv_block(text)
    /\ pc' = "csv_done"
    /\ UNCHANGED <<flags, pdfVars, text, inputs, locals>>

NextCsv == ExtractCsv

SpecCsv == InitCsv /\ [][NextCsv]_vars

\* ------------------------------------------------------------ get_model_api_key
\* Python truthiness of an Optional[str]: None and "" are falsy
Truthy(x) == x.some /\ x.val # ""

\* a or b
PyOr(a, b) == IF Truthy(a) THEN a ELSE b

\* st.secrets.get(name) inside try/except: None when the lookup raises
SecretsGet(name) ==
    IF secrets.raises THEN None
    ELSE IF name = "AI_API_KEY" THEN secrets.AI_API_KEY ELSE secrets.OPENAI_API_KEY

\* os.environ.get(name)
EnvironGet(name) == IF name = "AI_API_KEY" THEN environ.AI_API_KEY ELSE environ.OPENAI_API_KEY

\* the legacy name looked up before the primary one
get_model_api_key_legacy_first ==
    LET key1 == SecretsGet("OPENAI_API_KEY")
        key2 == IF ~Truthy(key1) THEN SecretsGet("AI_API_KEY") ELSE key1
    IN  IF ~Truthy(key2)
        THEN PyOr(EnvironGet("OPENAI_API_KEY"), EnvironGet("AI_API_KEY"))
        ELSE key2

get_model_api_key ==
    LET key1 == SecretsGet("AI_API_KEY")
        key2 == IF ~Truthy(key1) THEN SecretsGet("OPENAI_API_KEY") ELSE key1
    IN  IF ~Truthy(key2)
        THEN PyOr(EnvironGet("AI_API_KEY"), EnvironGet("OPENAI_API_KEY"))
        ELSE key2

\* ------------------------------------------------------------ detect_insurer_name_from_text
(* The document texts of the model are written with the characters a, b,   *)
(* N, space and newline.  Of known_brands only "NN" can occur in such a    *)
(* text, and company_pattern, whose every alternative needs a V, cannot    *)
(* match; the function then returns "NN" when one of the first             *)
(* BrandLines non-blank lines of text[:SnippetLen] holds two N in a row,   *)
(* and None otherwise.                                                     *)
SnippetLen == 4000
BrandLines == 40

RECURSIVE SplitLines(_, _)
\* s.splitlines(), cur being the line read so far
SplitLines(s, cur) ==
    IF s = <<>> THEN (IF cur = <<>> THEN <<>> ELSE <<cur>>)
    ELSE IF s[1].c = "\n"
         THEN <<cur>> \o [i \in 1..(s[1].n - 1) |-> <<>>] \o SplitLines(Tail(s), <<>>)
         ELSE SplitLines(Tail(s), cur \o <<s[1]>>)

\* [x for x in xs if keep(x)], for keep = "strips to something"
RECURSIVE NonBlank(_)
NonBlank(ls) ==
    IF ls = <<>> THEN <<>>
    ELSE IF Strip(ls[1]) # <<>> THEN <<Strip(ls[1])>> \o NonBlank(Tail(ls))
    ELSE NonBlank(Tail(ls))

\* "nn" in l.lower()
HasNN(l) == \E i \in 1..Len(l) : l[i].c = "N" /\ l[i].n >= 2

detect_insurer_name_from_text(t) ==
    LET snippet == Take(t, SnippetLen)
        lines == NonBlank(SplitLines(snippet, <<>>))
        first == SubSeq(lines, 1, IF Len(lines) < BrandLines THEN Len(lines) ELSE BrandLines)
    IN  IF \E i \in 1..Len(first) : HasNN(first[i]) THEN Some(Chars("N", 2)) ELSE None

\* ------------------------------------------------------------ main
Simpel == "Simpel (inhoud)"
Uitgebreid == "Uitgebreid (tabel + CSV)"

\* mode.startswith("Simpel")
StartsWithSimpel(m) == m = Simpel

\* a literal of a template, and n newlines
Lit(str) == <<Run(str, 1)>>
NL(n) == Chars("\n", n)

RECURSIVE CatAll(_)
CatAll(ps) == IF ps = <<>> THEN <<>> ELSE Cat(ps[1], CatAll(Tail(ps)))

\* the text passed on whole
trunc_none(s) == s

\* def trunc(s): return s[: max_chars]
trunc(s) == Take(s, max_chars)

\* SIMPLE_SYSTEM_PROMPT + (SIMPLE_TABLE_ADDON if want_table_simple else ""), or COMPARER_SYSTEM_PROMPT
SystemPrompt ==
    IF StartsWithSimpel(mode)
    THEN Cat(Lit("SIMPLE_SYSTEM_PROMPT"),
             IF want_table_simple THEN Lit("SIMPLE_TABLE_ADDON") ELSE <<>>)
    ELSE Lit("COMPARER_SYSTEM_PROMPT")

\* the two f-string templates of user_msg
UserMsg(name, asr, other) ==
    IF StartsWithSimpel(mode)
    THEN CatAll(<<
            Lit("Geef beknopt de belangrijkste verschillen."),
            IF want_table_simple THEN Lit(" Voeg ook de compacte tabel en CSV toe.") ELSE <<>>,
            IF name.some
            THEN CatAll(<<Lit(" Gebruik voor de maatschappij-rij indien mogelijk: '"),
                          name.val, Lit("'.")>>)
            ELSE <<>>,
            NL(2),
            Lit("ASR (ingekort):"), NL(1), trunc(asr), NL(2),
            Lit("Andere verzekeraar (ingekort):"), NL(1), trunc(other), NL(1) >>)
    ELSE CatAll(<<
            Lit("Vergelijk onderstaande polisvoorwaarden. Houd je strikt aan de system prompt."),
            NL(2),
            IF name.some
            THEN CatAll(<<Lit("Indien je de andere maatschappij kunt vaststellen, gebruik die in de eerste rij 'Maatschappij': '"),
                          name.val, Lit("'."), NL(2)>>)
            ELSE <<>>,
            Lit("ASR (volledige tekst, mogelijk ingekort):"), NL(1), trunc(asr), NL(2),
            Lit("Andere verzekeraar (volledige tekst, mogelijk ingekort):"), NL(1),
            trunc(other), NL(1) >>)

\* an element put on the page: the call, its message, and the text it shows
Element(widget, msg, data) == [widget |-> widget, msg |-> msg, data |-> data]

Show(e) == ui' = Append(ui, e)

MsgNoClient == "AI client niet gevonden. Installeer afhankelijkheden en herstart: pip install -r requirements.txt"
MsgUpload == "Upload zowel ASR als Andere verzekeraar."
MsgNoKey == "Geen AI_API_KEY gevonden. Vul in of configureer via secrets/env."
MsgNoText == "Kon geen tekst uit een of beide PDF's extraheren. Probeer andere bestanden of hogere kwaliteit."
MsgCallFailed == "Fout bij AI-aanroep: {e}"
MsgCsvUnparsed == "Kon CSV-onderdeel niet parseren. Download of kopieer het CSV-codeblok handmatig."
MsgNoCsv == "Geen CSV-codeblok gedetecteerd in AI-output."

\* lines 145-162: the page's widgets are read and the credential is resolved
Start ==
    /\ pc = "start"
    /\ effective_key' = PyOr(Some(provided_key), get_model_api_key)
    /\ ui' = <<Element("st.title", "ASR vs Andere verzekeraar - AI polisvergelijker", <<>>)>>
    /\ pc' = "client"
    /\ UNCHANGED <<flags, pdfVars, csvVars, inputs, text_asr, text_other, other_name,
                   system_prompt, user_msg, content, csv_text, requests>>

\* lines 164-166: if OpenAI is None: st.sidebar.error(...); return
CheckClient ==
    /\ pc = "client"
    /\ IF ~OpenAI
       THEN Show(Element("st.sidebar.error", MsgNoClient, <<>>)) /\ pc' = "done"
       ELSE UNCHANGED ui /\ pc' = "button"
    /\ UNCHANGED <<flags, pdfVars, csvVars, inputs, effective_key, text_asr, text_other,
                   other_name, system_prompt, user_msg, content, csv_text, requests>>

\* line 168: if st.button("Genereer AI-vergelijking", type="primary")
Button ==
    /\ pc = "button"
    /\ pc' = IF button THEN "validate" ELSE "caption"
    /\ UNCHANGED <<flags, pdfVars, csvVars, inputs, locals>>

\* the check of the credential left out
KeyMissingNever == FALSE

\* if not effective_key
KeyMissing == ~Truthy(effective_key)

\* lines 169-174: both files and a credential, or st.error(...) and return
Validate ==
    /\ pc = "validate"
    /\ IF ~file_asr.some \/ ~file_other.some
       THEN Show(Element("st.error", MsgUpload, <<>>)) /\ pc' = "done"
       ELSE IF KeyMissing
       THEN Show(Element("st.error", MsgNoKey, <<>>)) /\ pc' = "done"
       ELSE UNCHANGED ui /\ pc' = "read"
    /\ UNCHANGED <<flags, pdfVars, csvVars, inputs, effective_key, text_asr, text_other,
                   other_name, system_prompt, user_msg, content, csv_text, requests>>

\* lines 176-182: both texts are extracted and stripped; an empty one ends the action
ReadPdfs ==
    /\ pc = "read"
    /\ text_asr' = Strip(read_pdf_bytes(file_asr.val).ret)
    /\ text_other' = Strip(read_pdf_bytes(file_other.val).ret)
    /\ IF text_asr' = <<>> \/ text_other' = <<>>
       THEN Show(Element("st.error", MsgNoText, <<>>)) /\ pc' = "done"
       ELSE UNCHANGED ui /\ pc' = "assemble"
    /\ UNCHANGED <<flags, pdfVars, csvVars, inputs, effective_key, other_name,
                   system_prompt, user_msg, content, csv_text, requests>>

\* lines 184-208: the insurer's name, the system prompt and the user message
Assemble ==
    /\ pc = "assemble"
    /\ other_name' = detect_insurer_name_from_text(text_other)
    /\ IF other_name'.some
       THEN Show(Element("st.info", "Gedetecteerde maatschappij (Andere): {other_name}", <<>>))
       ELSE UNCHANGED ui
    /\ system_prompt' = SystemPrompt
    /\ user_msg' = UserMsg(other_name', text_asr, text_other)
    /\ pc' = "call"
    /\ UNCHANGED <<flags, pdfVars, csvVars, inputs, effective_key, text_asr, text_other,
                   content, csv_text, requests>>

\* resp.choices[0].message.content or ""
ContentOrEmpty(c) == IF c.some THEN c.val ELSE <<>>

\* lines 210-227: the one request; an error of the call is shown and ends the action
CallService ==
    /\ pc = "call"
    /\ requests' = Append(requests,
                          [api_key |-> effective_key,
                           model |-> "gpt-4o-mini",
                           system |-> system_prompt,
                           user |-> user_msg,
                           temperature |-> IF StartsWithSimpel(mode) THEN "0.2" ELSE "0.1"])
    /\ IF service.raises
       THEN /\ Show(Element("st.error", MsgCallFailed, <<>>))
            /\ pc' = "done"
            /\ UNCHANGED content
       ELSE /\ content' = ContentOrEmpty(service.content)
            /\ ui' = ui \o <<Element("st.subheader", "AI-resultaat", <<>>),
                             Element("st.markdown", "", content')>>
            /\ pc' = "table"
    /\ UNCHANGED <<flags, pdfVars, csvVars, inputs, effective_key, text_asr, text_other,
                   other_name, system_prompt, user_msg, csv_text>>

\* the table put on the page whether or not the block parses
TryTableUnguarded(csv) ==
    << Element("st.subheader", "Tabel (CSV omgezet)", <<>>),
       Element("st.dataframe", "", csv),
       Element("st.download_button", "Download tabel (CSV)", csv) >>

\* lines 233-244: the table and the download of the parsed block; when
\* pd.read_csv raises, nothing of the try block is on the page and the except
\* branch shows a message
TryTable(csv) ==
    IF read_csv_ok
    THEN << Element("st.subheader", "Tabel (CSV omgezet)", <<>>),
            Element("st.dataframe", "", csv),
            Element("st.download_button", "Download tabel (CSV)", csv) >>
    ELSE << Element("st.info", MsgCsvUnparsed, <<>>) >>

\* lines 229-246: the table of the recovered csv block, or a message
Table ==
    /\ pc = "table"
    /\ IF (~StartsWithSimpel(mode)) \/ (StartsWithSimpel(mode) /\ want_table_simple)
       THEN /\ csv_text' = extract_csv_block(content)
            /\ IF csv_text'.some /\ csv_text'.val # <<>>
               THEN ui' = ui \o TryTable(csv_text'.val)
               ELSE Show(Element("st.info", MsgNoCsv, <<>>))
       ELSE UNCHANGED <<csv_text, ui>>
    /\ pc' = "caption"
    /\ UNCHANGED <<flags, pdfVars, csvVars, inputs, effective_key, text_asr, text_other,
                   other_name, system_prompt, user_msg, content, requests>>

\* line 248: the closing caption, reached unless the run returned early
Caption ==
    /\ pc = "caption"
    /\ Show(Element("st.caption", "Snel: 'Simpel (inhoud)'. ...", <<>>))
    /\ pc' = "done"
    /\ UNCHANGED <<flags, pdfVars, csvVars, inputs, effective_key, text_asr, text_other,
                   other_name, system_prompt, user_msg, content, csv_text, requests>>

Next ==
    \/ Start
    \/ CheckClient
    \/ Button
    \/ Validate
    \/ ReadPdfs
    \/ Assemble
    \/ CallService
    \/ Table
    \/ Caption


\* ------------------------------------------------------------ the runs checked
MaxSliderSteps == 2
MaxMainPieces == 3
SliderMin == 5000
SliderMax == 200000
SliderStep == 5000

\* the values the slider can take, from its lowest
Budgets ==
    { b \in { SliderMin + k * SliderStep : k \in 0..(MaxSliderSteps - 1) } : b <= SliderMax }

Fails == [pages |-> <<>>, raises |-> TRUE]
Yields(pages) == [pages |-> pages, raises |-> FALSE]

\* "\n\n" + 5003 a + " ": 5006 characters, 5003 when stripped
DocLeadingSpace ==
    [fitz |-> Yields(<< CatAll(<<NL(2), Chars("a", 5003), Chars(" ", 1)>>) >>), plumber |-> Fails]
\* fitz cannot open it; pdfplumber reads three pages, the second without text
DocSecondary ==
    [fitz |-> Fails,
     plumber |-> Yields(<< Some(Cat(Chars("a", 3998), Chars("N", 2))), None,
                           Some(Chars("b", 7000)) >>)]
\* 4000 a, then NN: the name lies behind the snippet
DocNameLate ==
    [fitz |-> Yields(<< Cat(Chars("a", 4000), Chars("N", 2)), Chars("b", 1) >>), plumber |-> Fails]
DocShort == [fitz |-> Yields(<< Chars("N", 2) >>), plumber |-> Yields(<< Some(Chars("b", 1)) >>)]
\* one page of whitespace
DocBlank == [fitz |-> Yields(<< Chars(" ", 3) >>), plumber |-> Fails]
\* neither backend can open it
DocBroken == [fitz |-> Fails, plumber |-> Fails]
\* fitz reads one page and raises on the next
DocPartial ==
    [fitz |-> [pages |-> << Chars("b", 5001) >>, raises |-> TRUE],
     plumber |-> Yields(<< Some(Chars("b", 5001)), Some(Chars("a", 5001)) >>)]

MainDocs == { DocLeadingSpace, DocSecondary, DocNameLate, DocShort, DocBlank, DocBroken, DocPartial }

Uploads == {None} \cup { Some(d) : d \in MainDocs }

KeyValues(k) == { None, Some(""), Some(k) }

SecretStores ==
    [raises : {FALSE}, AI_API_KEY : KeyValues("key-secrets-ai"),
     OPENAI_API_KEY : KeyValues("key-secrets-openai")]
    \cup { [raises |-> TRUE, AI_API_KEY |-> None, OPENAI_API_KEY |-> None] }

Environs == [AI_API_KEY : KeyValues("key-env-ai"), OPENAI_API_KEY : KeyValues("key-env-openai")]

MainResponses == { Concat(ps) : ps \in SeqsUpTo(Pieces, MaxMainPieces) }

Services ==
    { [raises |-> TRUE, content |-> None], [raises |-> FALSE, content |-> None] }
    \cup { [raises |-> FALSE, content |-> Some(r)] : r \in MainResponses }

CsvTable == <<BT, BT, BT, "c", "s", "v", " ", "\n", "x", BT, BT, BT>>

\* every pair of uploads, under every budget and prompt
RunsDocuments ==
    /\ fitz = TRUE /\ pdfplumber = TRUE /\ OpenAI = TRUE /\ button = TRUE
    /\ file_asr \in Uploads /\ file_other \in Uploads
    /\ max_chars \in Budgets
    /\ mode \in {Simpel, Uitgebreid} /\ want_table_simple \in BOOLEAN
    /\ provided_key = "key-input"
    /\ secrets \in { s \in SecretStores : s.raises }
    /\ environ \in { e \in Environs : ~e.AI_API_KEY.some /\ ~e.OPENAI_API_KEY.some }
    /\ service = [raises |-> FALSE, content |-> Some(CsvTable)]
    /\ read_csv_ok = TRUE

\* every state of the five places a credential can come from
RunsCredentials ==
    /\ fitz = TRUE /\ pdfplumber = TRUE /\ OpenAI = TRUE /\ button = TRUE
    /\ file_asr = Some(DocShort) /\ file_other \in {Some(DocShort), Some(DocBroken)}
    /\ max_chars = SliderMin
    /\ mode = Simpel /\ want_table_simple = TRUE
    /\ provided_key \in {"", "key-input"}
    /\ secrets \in SecretStores
    /\ environ \in Environs
    /\ service = [raises |-> FALSE, content |-> Some(CsvTable)]
    /\ read_csv_ok = TRUE

\* every answer of the generation service and of pd.read_csv
RunsResponses ==
    /\ fitz = TRUE /\ pdfplumber = TRUE /\ OpenAI = TRUE /\ button = TRUE
    /\ file_asr = Some(DocShort) /\ file_other = Some(DocShort)
    /\ max_chars = SliderMin
    /\ mode \in {Simpel, Uitgebreid} /\ want_table_simple \in BOOLEAN
    /\ provided_key = "key-input"
    /\ secrets \in { s \in SecretStores : s.raises }
    /\ environ \in { e \in Environs : ~e.AI_API_KEY.some /\ ~e.OPENAI_API_KEY.some }
    /\ service \in Services
    /\ read_csv_ok \in BOOLEAN

\* every set of loaded modules, with and without the button pressed
RunsModules ==
    /\ fitz \in BOOLEAN /\ pdfplumber \in BOOLEAN /\ OpenAI \in BOOLEAN /\ button \in BOOLEAN
    /\ file_asr \in {None, Some(DocShort), Some(DocSecondary)}
    /\ file_other \in {None, Some(DocShort), Some(DocPartial)}
    /\ max_chars = SliderMin
    /\ mode = Uitgebreid /\ want_table_simple = FALSE
    /\ provided_key \in {"", "key-input"}
    /\ secrets \in { s \in SecretStores : s.raises }
    /\ environ \in { e \in Environs : ~e.AI_API_KEY.some /\ ~e.OPENAI_API_KEY.some }
    /\ service \in { [raises |-> TRUE, content |-> None],
                     [raises |-> FALSE, content |-> Some(CsvTable)] }
    /\ read_csv_ok = TRUE

Init ==
    /\ pc = "start"
    /\ PdfIdle
    /\ CsvIdle
    /\ RunsDocuments \/ RunsCredentials \/ RunsResponses \/ RunsModules
    /\ effective_key = None /\ text_asr = <<>> /\ text_other = <<>>
    /\ other_name = None /\ system_prompt = <<>> /\ user_msg = <<>>
    /\ content = <<>> /\ csv_text = None
    /\ ui = <<>> /\ requests = <<>>

Spec == Init /\ [][Next]_vars

\* ------------------------------------------------------------ claims on read_pdf_bytes

\* what pdfplumber produces for the bytes: its per-page texts, joined by newlines
SecondaryText(bytes) ==
    Join(Chars("\n", 1),
         [i \in 1..Len(bytes.plumber.pages) |-> OrEmpty(bytes.plumber.pages[i])])

\* C1: whenever fitz raises on the input, on open or after some pages, and
\* pdfplumber is loaded, read_pdf_bytes returns the text pdfplumber produces.
C1_FallbackOnAnyPrimaryError ==
    (pc = "pdf_done" /\ fitz /\ pdfplumber /\ file_bytes.fitz.raises)
        => rd.ret = SecondaryText(file_bytes)

\* C2 as stated: read_pdf_bytes never raises, and returns "" for every input
\* on which both backends raise.
C2_EmptyWheneverBothFail ==
    pc = "pdf_done" =>
        /\ ~rd.raised
        /\ (file_bytes.fitz.raises /\ file_bytes.plumber.raises) => rd.ret = <<>>

\* C2, amended: for every availability of the backends and every failure
\* read_pdf_bytes completes without raising, and it returns "" for an input on
\* which both backends raise before yielding any page.
C2_NeverRaisesEmptyWhenNoPage ==
    pc = "pdf_done" =>
        /\ ~rd.raised
        /\ ( /\ file_bytes.fitz.raises /\ file_bytes.fitz.pages = <<>>
             /\ file_bytes.plumber.raises /\ file_bytes.plumber.pages = <<>> )
           => rd.ret = <<>>

C2_Witness ==
    /\ pc = "pdf_done" /\ fitz /\ pdfplumber
    /\ rd.fitz_called /\ rd.plumber_called
    /\ file_bytes.fitz.raises /\ file_bytes.fitz.pages = <<>>
    /\ file_bytes.plumber.raises /\ file_bytes.plumber.pages = <<>>
    /\ rd.ret = <<>>

\* C9: the returned text is the join of the fragments of exactly one backend:
\* pdfplumber is invoked only when fitz contributed no fragment, and once fitz
\* contributed a fragment (an empty one, or before it raised) pdfplumber is not
\* invoked.
C9_OneBackendOnly ==
    pc = "pdf_done" =>
        /\ rd.plumber_called => rd.n_fitz = 0
        /\ rd.n_fitz >= 1 => (~rd.plumber_called /\ rd.parts = file_bytes.fitz.pages)
        /\ Len(rd.parts) = rd.n_fitz + rd.n_plumber
        /\ ~(rd.n_fitz >= 1 /\ rd.n_plumber >= 1)
        /\ rd.ret = Join(Chars("\n", 1), rd.parts)

C9_Witness ==
    /\ pc = "pdf_done" /\ fitz /\ pdfplumber
    /\ file_bytes.fitz.pages = << <<>> >> /\ file_bytes.fitz.raises
    /\ file_bytes.plumber.pages # <<>>
    /\ ~rd.plumber_called
    /\ rd.ret = <<>>

\* ------------------------------------------------------------ claims on extract_csv_block

\* three backticks at position j
ThreeTicksAt(t, j) == j >= 1 /\ j + 2 <= Len(t) /\ SubSeq(t, j, j + 2) = <<BT, BT, BT>>

\* an opening delimiter at position i: three backticks and csv in any letter case
CsvOpeningAt(t, i) ==
    /\ ThreeTicksAt(t, i)
    /\ i + 5 <= Len(t)
    /\ t[i + 3] \in {"c", "C"} /\ t[i + 4] \in {"s", "S"} /\ t[i + 5] \in {"v", "V"}

\* the text holds a fenced csv region: an opening delimiter and three backticks after it
HasFencedCsv(t) ==
    \E i \in 1..Len(t) : CsvOpeningAt(t, i) /\ \E j \in (i + 6)..Len(t) : ThreeTicksAt(t, j)

\* the content between the leftmost opening delimiter and the next three backticks
FirstRegion(t) ==
    LET i0 == SetMin({ i \in 1..Len(t) : CsvOpeningAt(t, i) })
        j0 == SetMin({ j \in (i0 + 6)..Len(t) : ThreeTicksAt(t, j) })
    IN  SubSeq(t, i0 + 6, j0 - 1)

\* C3: on a text with one or more fenced csv regions extract_csv_block returns
\* the stripped content between the leftmost opening delimiter and the next
\* three backticks after it, and nothing of later regions.
C3_FirstRegionOnly ==
    (pc = "csv_done" /\ HasFencedCsv(text))
        => match = Some(StripChars(FirstRegion(text)))

\* two regions with different contents: the first one is returned
C3_Witness ==
    /\ pc = "csv_done"
    /\ text = <<BT, BT, BT, "c", "s", "v", "x", BT, BT, BT,
                BT, BT, BT, "C", "s", "V", BT, BT, BT>>
    /\ match = Some(<<"x">>)

\* C4: extract_csv_block returns None exactly when the text has no fenced csv
\* region; a region that is empty or only whitespace yields "", which is not None.
C4_NoneIffNoRegion ==
    pc = "csv_done" =>
        /\ (match = None) <=> ~HasFencedCsv(text)
        /\ (HasFencedCsv(text) /\ StripChars(FirstRegion(text)) = <<>>)
               => (match = Some(<<>>) /\ match # None)

C4_Witness ==
    /\ pc = "csv_done"
    /\ text = <<BT, BT, BT, "C", "s", "V", " ", "\n", BT, BT, BT>>
    /\ match = Some(<<>>)
    /\ match # None

\* ------------------------------------------------------------ claims on main

\* what read_pdf_bytes returns for an uploaded file
Extracted(f) == read_pdf_bytes(f.val).ret

DocAlphabet == {"a", "b", "N"} \cup Whitespace

AsrLabels == {"ASR (ingekort):", "ASR (volledige tekst, mogelijk ingekort):"}
OtherLabels ==
    {"Andere verzekeraar (ingekort):", "Andere verzekeraar (volledige tekst, mogelijk ingekort):"}

\* the part of a user message between a document's label and the next literal
Section(msg, labels) ==
    LET i == CHOOSE i \in 1..Len(msg) : msg[i].c \in labels
        later == { j \in (i + 1)..Len(msg) : msg[j].c \notin DocAlphabet }
        j == IF later = {} THEN Len(msg) + 1 ELSE SetMin(later)
    IN  SubSeq(msg, i + 1, j - 1)

\* C5 as stated: a document whose extracted text is longer than max_chars is
\* sent as the first max_chars characters of the text read_pdf_bytes returned.
C5_FirstBOfExtractedText ==
    \A k \in 1..Len(requests) :
        /\ StrLen(Extracted(file_asr)) > max_chars
             => Section(requests[k].user, AsrLabels)
                  = CatAll(<<NL(1), Take(Extracted(file_asr), max_chars), NL(2)>>)
        /\ StrLen(Extracted(file_other)) > max_chars
             => Section(requests[k].user, OtherLabels)
                  = CatAll(<<NL(1), Take(Extracted(file_other), max_chars), NL(1)>>)

\* C5, amended: the text read_pdf_bytes returned is stripped of leading and
\* trailing whitespace and not altered otherwise before the message is
\* assembled; a document whose stripped text is longer than max_chars is sent
\* as the first max_chars characters of the stripped text.
C5_FirstBOfStrippedText ==
    /\ (pc \in {"assemble", "call", "table"} \/ requests # <<>>)
         => /\ text_asr = Strip(Extracted(file_asr))
            /\ text_other = Strip(Extracted(file_other))
    /\ \A k \in 1..Len(requests) :
        /\ requests[k].user = user_msg
        /\ StrLen(Strip(Extracted(file_asr))) > max_chars
             => Section(requests[k].user, AsrLabels)
                  = CatAll(<<NL(1), Take(Strip(Extracted(file_asr)), max_chars), NL(2)>>)
        /\ StrLen(Strip(Extracted(file_other))) > max_chars
             => Section(requests[k].user, OtherLabels)
                  = CatAll(<<NL(1), Take(Strip(Extracted(file_other)), max_chars), NL(1)>>)

C5_Witness ==
    /\ requests # <<>>
    /\ file_asr = Some(DocLeadingSpace)
    /\ file_other = Some(DocSecondary)
    /\ max_chars = 5000
    /\ Section(requests[1].user, AsrLabels) = CatAll(<<NL(1), Chars("a", 5000), NL(2)>>)
    /\ Section(requests[1].user, OtherLabels)
         = CatAll(<<NL(1), Chars("a", 3998), Chars("N", 2), NL(2), Chars("b", 998), NL(1)>>)

\* the places a credential can come from, in the order of the claim; a lookup
\* in a secrets store that raises counts as no value
CredentialSources ==
    << Some(provided_key),
       IF secrets.raises THEN None ELSE secrets.AI_API_KEY,
       IF secrets.raises THEN None ELSE secrets.OPENAI_API_KEY,
       environ.AI_API_KEY,
       environ.OPENAI_API_KEY >>

FirstNonEmpty ==
    LET found == { i \in 1..Len(CredentialSources) :
                     CredentialSources[i].some /\ CredentialSources[i].val # "" }
    IN  IF found = {} THEN None ELSE CredentialSources[SetMin(found)]

\* C6: the credential of the outbound call is the first non-empty value among
\* the explicit input, the secrets AI_API_KEY and OPENAI_API_KEY and the
\* environment variables AI_API_KEY and OPENAI_API_KEY; a secrets lookup that
\* raises counts as no value.
C6_FirstNonEmptyCredential ==
    /\ pc # "start" =>
          IF FirstNonEmpty.some THEN effective_key = FirstNonEmpty ELSE ~Truthy(effective_key)
    /\ \A k \in 1..Len(requests) :
          FirstNonEmpty.some /\ requests[k].api_key = FirstNonEmpty

C6_Witness ==
    /\ requests # <<>>
    /\ provided_key = "key-input"
    /\ ~secrets.raises /\ secrets.AI_API_KEY = Some("key-secrets-ai")
    /\ requests[1].api_key = Some("key-input")

\* the action ended on an error message
EndedOnError == pc = "done" /\ ui # <<>> /\ ui[Len(ui)].widget = "st.error"

\* C7: in one run the request is made at most once, and only with the button
\* pressed, both files uploaded, a non-empty credential and non-empty text
\* extracted from both files; with the button pressed and no credential, or
\* an empty extraction, the run ends on an error message with no request made.
C7_CallOnlyWhenReady ==
    /\ Len(requests) <= 1
    /\ requests # <<>> =>
          /\ OpenAI /\ button
          /\ file_asr.some /\ file_other.some
          /\ FirstNonEmpty.some
          /\ Extracted(file_asr) # <<>> /\ Extracted(file_other) # <<>>
    /\ ( /\ pc = "done" /\ OpenAI /\ button
         /\ \/ ~FirstNonEmpty.some
            \/ /\ file_asr.some /\ file_other.some
               /\ (Extracted(file_asr) = <<>> \/ Extracted(file_other) = <<>>) )
       => (requests = <<>> /\ EndedOnError)

C7_Witness ==
    /\ pc = "done" /\ OpenAI /\ button
    /\ file_asr.some /\ file_other.some
    /\ ~FirstNonEmpty.some
    /\ requests = <<>>
    /\ EndedOnError /\ ui[Len(ui)].msg = MsgNoKey

\* sub occurs in s as a run of neighbouring characters
Contains(s, sub) ==
    \E i \in 0..(Len(s) - Len(sub)) : SubSeq(s, i + 1, i + Len(sub)) = sub

\* pd.read_csv failed on a recovered block
ParseFailed == csv_text.some /\ csv_text.val # <<>> /\ ~read_csv_ok

C10_NoCsvMessageOnlyWithoutRegion ==
    pc = "done" =>
        ((\E i \in 1..Len(ui) : ui[i].msg = MsgNoCsv) => ~HasFencedCsv(content))

====
